---- MODULE Spec2Model ----
(***************************************************************************)
(* Recording lifecycle and transcription pipeline of the Obsidian AI       *)
(* plugin (src/recording.ts, src/summary.ts, src/main.ts).                 *)
(*                                                                         *)
(* Execution is single-threaded and cooperative: a handler runs without    *)
(* interruption up to its next await of a host, device or network          *)
(* operation.  Every action below is one such uninterrupted segment: the   *)
(* completion of the awaited operation followed by the synchronous code    *)
(* up to the next await.                                                   *)
(***************************************************************************)
EXTENDS Integers, Sequences, FiniteSets, TLC

(***************************************************************************)
(* Bounds of the model.                                                    *)
(***************************************************************************)
\* startRecording calls issued by the user (ribbon, commands, file menu).
MaxStartCalls == 2
\* stopRecording calls issued by the user (ribbon, command, panel button).
MaxStopCalls == 2
\* dataavailable events a recorder delivers before its final one.
MaxChunks == 1
\* Times the wall clock is seen to have advanced between two readings.
MaxTicks == 1
\* Host and service operations that fail, in the lifecycle specification.
MaxFaults == 0
\* Stop pipelines in flight at a time, in the lifecycle specification.
MaxDraining == 1
\* Status polls the transcription service answers "queued"/"processing"
\* before it answers with a terminal status, in the lifecycle specification.
MaxSlowPolls == 0

\* The pipeline specification: one recording, stopped twice, with enough
\* failing operations for the audio save and one later stage to fail both.
PipelineStartCalls == 1
PipelineStopCalls == 2
PipelineFaults == 2
PipelineSlowPolls == 1
PipelineDraining == 2
\* The polling specification: one recording and one failing operation.
PollStartCalls == 1
PollStopCalls == 1
PollFaults == 1

\* Utterances a transcript holds, in the specifications that are not about
\* its formatting, and in the transcript specification.
MaxUtterances == 0
TranscriptUtterances == 3
\* The clock specification: how often the clock is seen to have advanced.
ClockTicks == 3
\* The timestamp specification: utterances a transcript holds.
TimestampUtterances == 1
\* The overlap specification: stop pipelines in flight at a time.
OverlapDraining == 2

\* waitForTranscript's attempt budget: `attempt < 40`.
PollBudget == 40

\* Date.now() at plugin load, in milliseconds (positive, as the epoch clock is).
StartOfTime == 1000
\* Between two readings the wall clock stands still or advances by a second.
TickSteps == {1000}

\* The note a recording can be tied to ("Record Meeting", "Start recording
\* for current note"); NoFile is parentFile === undefined.
NoFile == ""
ParentFiles == {"A"}

VARIABLES
  session,         \* RecordingManager.session (NoSession is null)
  mediaRecorder,   \* RecordingManager.mediaRecorder: a recorder id, 0 is null
  currentStream,   \* RecordingManager.currentStream: a stream id, 0 is null
  chunks,          \* RecordingManager.chunks
  recordingPanel,  \* RecordingManager.recordingPanel is open (non-null)
  notice,          \* the last Notice startRecording or stopRecording showed
  streams,         \* the MediaStreams getUserMedia returned: "live" | "ended"
  recorders,       \* the MediaRecorders constructed
  starting,        \* startRecording calls suspended at getUserMedia
  stops,           \* stopRecording calls that consumed a session
  startCalls,      \* startRecording calls issued so far
  stopCalls,       \* stopRecording calls issued so far
  now,             \* Date.now() at its last reading
  ticks,           \* clock advances seen so far
  vault,           \* the host vault: the paths of its folders and files
  content,         \* the host vault: the text of its notes
  faults,          \* host and service operations that failed so far
  limits           \* the bounds of the specification at hand

vars == <<session, mediaRecorder, currentStream, chunks, recordingPanel, notice,
          streams, recorders, starting, stops, startCalls, stopCalls,
          now, ticks, vault, content, faults, limits>>

hostVars == <<vault, content, faults>>
clockVars == <<now, ticks>>
callVars == <<startCalls, stopCalls>>
deviceVars == <<streams, recorders>>

managerVars == <<session, mediaRecorder, currentStream, chunks, recordingPanel, notice>>


(***************************************************************************)
(* Paths and file names.  A string is the sequence of its pieces; the      *)
(* piece "." is a dot and "/" a separator, and no other piece contains     *)
(* either, so that split('.') and split('/') act on the pieces.            *)
(***************************************************************************)
\* The index of the last piece of `path` equal to `sep`, 0 when there is none.
RECURSIVE LastIndexOf(_, _, _)
LastIndexOf(path, sep, i) ==
  IF i = 0 THEN 0
  ELSE IF path[i] = sep THEN i
  ELSE LastIndexOf(path, sep, i - 1)

\* `${base}-${counter}.${ext}` with parts = candidate.split('.'),
\* ext = parts.pop(), base = parts.join('.')  (lines 596-599).
NextCandidate(candidate, counter) ==
  LET dot  == LastIndexOf(candidate, ".", Len(candidate))
      ext  == SubSeq(candidate, dot + 1, Len(candidate))
      base == SubSeq(candidate, 1, dot - 1)
  IN  base \o <<"-", ToString(counter)>> \o <<".">> \o ext

\* The while loop of uniquePath; `existing` is what getAbstractFileByPath finds.
RECURSIVE UniquePathLoop(_, _, _)
UniquePathLoop(existing, candidate, counter) ==
  IF candidate \in existing
    THEN UniquePathLoop(existing, NextCandidate(candidate, counter), counter + 1)
    ELSE candidate

uniquePath(existing, initialPath) == UniquePathLoop(existing, initialPath, 1)

\* basename(path): the pieces after the last "/".
basename(path) ==
  SubSeq(path, LastIndexOf(path, "/", Len(path)) + 1, Len(path))

\* TFile.basename: the file name without its extension.
TFileBasename(path) ==
  LET name == basename(path)
      dot  == LastIndexOf(name, ".", Len(name))
  IN  IF dot = 0 THEN name ELSE SubSeq(name, 1, dot - 1)

\* settings.audioFolderPath || 'Audio', settings.transcriptionFolderPath || 'Transcriptions'
AudioFolder == <<"Audio">>
TranscriptionFolder == <<"Transcriptions">>

\* formatDateForFilename: the start time to the second.
formatDateForFilename(startedAt) == <<ToString(startedAt \div 1000)>>

\* formatReadableDate: the start time to the minute, as `<date> HH.mm`.
formatReadableDate(startedAt) ==
  <<ToString(startedAt \div 3600000), ".", ToString((startedAt \div 60000) % 60)>>

\* The path saveAudioFile asks uniquePath for (lines 206-208).
AudioPath(startedAt) ==
  AudioFolder \o <<"/">> \o formatDateForFilename(startedAt)
    \o <<"_meeting-audio", ".", "webm">>

\* The vault path of a parent note, and the path createTranscriptionNote asks
\* uniquePath for (lines 249-252).
ParentPath(parentFile) == <<parentFile, ".", "md">>

NotePath(parentFile, startedAt) ==
  TranscriptionFolder \o <<"/">>
    \o <<IF parentFile # NoFile THEN parentFile ELSE "Meeting">>
    \o <<" - Meeting Transcript ">> \o formatReadableDate(startedAt)
    \o <<".", "md">>

(***************************************************************************)
(* Note text.  A text is the sequence of its lines and fragments, each a   *)
(* string in pieces; includes(x) looks for the fragment x.                 *)
(***************************************************************************)
Includes(text, fragment) == \E i \in 1..Len(text) : text[i] = fragment

WikiLink(name) == <<"[[">> \o name \o <<"]]">>

\* TranscriptionResult and Utterance (lines 15-24).  start <<>> and speaker
\* "" are absent; a text of "" is empty or absent.  The labels are such that
\* their order of appearance can differ from their alphabetical order.
OneTimestamp == {61000}
\* Start times in milliseconds around the seconds, minutes and hours and
\* around 10, 24 and 100 hours.
Timestamps ==
  {0, 999, 1000, 59999, 60000, 61000, 3599999, 3600000, 3661000,
   35999000, 36000000, 86399999, 86400000, 90061001,
   359999999, 360000000, 363723004}
Utterances ==
  [start : {<<>>} \cup {<<ms>> : ms \in limits.timestamps},
   speaker : {"", "B", "A"}, text : {"", " ", "hi"}]
NoTranscript == [text |-> "", utterances |-> <<>>]
PlainTranscript == [text |-> "transcript", utterances |-> <<>>]

\* String.prototype.trim on the texts above.
trim(text) == IF text = " " THEN "" ELSE text

\* String(n).padStart(2, '0').
padStart(n) == IF n < 10 THEN <<"0", ToString(n)>> ELSE <<ToString(n)>>

\* formatTimestamp (lines 606-617).
formatTimestampWrapsHours(ms) ==
  LET totalSeconds == ms \div 1000
      hours == (totalSeconds \div 3600) % 24
      minutes == (totalSeconds % 3600) \div 60
      seconds == totalSeconds % 60
  IN  padStart(hours) \o <<":">> \o padStart(minutes) \o <<":">> \o padStart(seconds)
formatTimestamp(ms) ==
  LET totalSeconds == ms \div 1000
      hours == totalSeconds \div 3600
      minutes == (totalSeconds % 3600) \div 60
      seconds == totalSeconds % 60
  IN  padStart(hours) \o <<":">> \o padStart(minutes) \o <<":">> \o padStart(seconds)

\* parts.join(' ').
RECURSIVE Join(_)
Join(parts) ==
  IF Len(parts) = 0 THEN <<"">>
  ELSE IF Len(parts) = 1 THEN parts[1]
  ELSE parts[1] \o <<" ">> \o Join(Tail(parts))

\* `if (!utterance.text) return null` (line 542): whether the utterance is
\* formatted at all.
AlwaysHasText(utterance) == TRUE
HasText(utterance) == utterance.text # ""

\* speakerMap after `if (!speakerMap.has(speaker)) speakerMap.set(speaker,
\* nextSpeakerNumber++)` (lines 550-552).
WithSpeakerRenumbered(speakerMap, speaker, nextSpeakerNumber) ==
  [l \in DOMAIN speakerMap \cup {speaker} |->
     IF l = speaker THEN nextSpeakerNumber ELSE speakerMap[l]]
WithSpeaker(speakerMap, speaker, nextSpeakerNumber) ==
  IF speaker \in DOMAIN speakerMap THEN speakerMap
  ELSE [l \in DOMAIN speakerMap \cup {speaker} |->
          IF l = speaker THEN nextSpeakerNumber ELSE speakerMap[l]]

\* nextSpeakerNumber after the same statement: `nextSpeakerNumber++` runs only
\* for a speaker the map does not have (lines 550-552).
AfterSpeakerAlwaysCounts(speakerMap, speaker, nextSpeakerNumber) ==
  nextSpeakerNumber + 1
AfterSpeaker(speakerMap, speaker, nextSpeakerNumber) ==
  IF speaker \in DOMAIN speakerMap THEN nextSpeakerNumber
  ELSE nextSpeakerNumber + 1

\* The line of one utterance that has text (lines 543-558), speakerMap being
\* the map after line 552.
FormatUtterance(utterance, speakerMap) ==
  Join((IF utterance.start # <<>>
          THEN << <<"[">> \o formatTimestamp(utterance.start[1]) \o <<"]">> >>
          ELSE <<>>)
       \o (IF utterance.speaker # ""
             THEN << <<"**Speaker ", ToString(speakerMap[utterance.speaker]), ":**">> >>
             ELSE <<>>)
       \o << <<trim(utterance.text)>> >>)

\* utterances.map(...) from utterance i on (lines 540-559); <<>> is null.
RECURSIVE MapUtterances(_, _, _, _)
MapUtterances(utterances, i, speakerMap, nextSpeakerNumber) ==
  IF i > Len(utterances) THEN <<>>
  ELSE LET utterance == utterances[i] IN
       IF ~HasText(utterance)
         THEN << <<>> >> \o MapUtterances(utterances, i + 1, speakerMap, nextSpeakerNumber)
       ELSE IF utterance.speaker = ""
         THEN << FormatUtterance(utterance, speakerMap) >>
                \o MapUtterances(utterances, i + 1, speakerMap, nextSpeakerNumber)
       ELSE LET map == WithSpeaker(speakerMap, utterance.speaker, nextSpeakerNumber)
                next == AfterSpeaker(speakerMap, utterance.speaker, nextSpeakerNumber)
            IN  << FormatUtterance(utterance, map) >>
                  \o MapUtterances(utterances, i + 1, map, next)

\* formatTranscript (lines 534-564): the lines of the text it returns;
\* .filter(Boolean) drops null and the empty string, .join('\n') is the
\* sequence of the lines.
formatTranscript(result) ==
  IF Len(result.utterances) > 0
    THEN SelectSeq(MapUtterances(result.utterances, 1, <<>>, 1),
                   LAMBDA line : line # <<>> /\ line # <<"">>)
    ELSE IF result.text # "" THEN << <<result.text>> >> ELSE <<>>

\* buildFrontmatter (lines 566-581); audioFilePath <<>> is undefined.
buildFrontmatterAlwaysAudio(parentFile, audioFilePath, startedAt) ==
  <<  <<"---">>, <<"type: meeting-transcript">>  >>
  \o (IF parentFile # NoFile
        THEN << <<"source_note: ">> \o WikiLink(<<parentFile>>) >> ELSE <<>>)
  \o << <<"audio_file: ">> \o WikiLink(basename(audioFilePath)) >>
  \o << <<"created: ", ToString(startedAt)>>, <<"---">> >>
buildFrontmatter(parentFile, audioFilePath, startedAt) ==
  <<  <<"---">>, <<"type: meeting-transcript">>  >>
  \o (IF parentFile # NoFile
        THEN << <<"source_note: ">> \o WikiLink(<<parentFile>>) >> ELSE <<>>)
  \o (IF audioFilePath # <<>>
        THEN << <<"audio_file: ">> \o WikiLink(basename(audioFilePath)) >> ELSE <<>>)
  \o << <<"created: ", ToString(startedAt)>>, <<"---">> >>

\* The content createTranscriptionNote writes (lines 254-258).
NoteContent(transcript, parentFile, audioFilePath, startedAt) ==
  buildFrontmatter(parentFile, audioFilePath, startedAt)
  \o (IF audioFilePath # <<>>
        THEN << <<"**Audio:** ">> \o WikiLink(basename(audioFilePath)) >> ELSE <<>>)
  \o << <<"## Transcript">> >> \o formatTranscript(transcript)

RecordingHeading == <<"### Recording">>
SummaryHeading == <<"## AI Meeting Summary">>

\* The text appendLinkToParent writes back (lines 272-279).
WithLink(text, link) ==
  text
  \o (IF ~Includes(text, RecordingHeading) THEN <<RecordingHeading>> ELSE << <<"\n">> >>)
  \o << <<"- ">>, link >>

\* The text appendMeetingSummary writes back (line 293).
WithSummary(text) == text \o <<SummaryHeading, <<"summary">> >>

\* `content.includes(link)` (line 268).
NeverHasLink(text, link) == FALSE
HasLink(text, link) == Includes(text, link)

\* The parent note's content once appendLinkToParent, having read `text`,
\* returned (lines 264-281).
appendLinkToParent(text, link) ==
  IF HasLink(text, link) THEN text ELSE WithLink(text, link)

\* `content.includes('## AI Meeting Summary')` (line 291).
NeverHasSummary(text) == FALSE
HasSummary(text) == Includes(text, SummaryHeading)

\* The transcript note's content once appendMeetingSummary, given a summary
\* and having read `text`, returned (lines 289-294).
appendMeetingSummary(text) ==
  IF HasSummary(text) THEN text ELSE WithSummary(text)

(***************************************************************************)
(* settings.transcriptionSettings and the body of the submit request.  A   *)
(* language is the sequence of its characters; <<>> is '' or undefined.    *)
(***************************************************************************)
\* DEFAULT_SETTINGS.transcriptionSettings (settings.ts 33-36).
DefaultTranscriptionSettings ==
  [language |-> <<"e", "n", "-", "U", "S">>, accuracySpeed |-> "balanced"]

\* What data.json may hold: the languages the settings tab stores, blank
\* ones, ones with spaces around them and one with two hyphens; the three
\* modes of the dropdown and none.
Languages ==
  {<<>>, <<" ">>, <<"e", "n", "-", "U", "S">>, <<"e", "n", "_", "u", "s">>,
   <<" ", "e", "n", "-", "U", "S", " ">>, <<"p", "t">>,
   <<"z", "h", "-", "H", "a", "n", "t", "-", "T", "W">>}
AccuracyModes == {"balanced", "accurate", "fast", ""}

\* String.prototype.trim.
RECURSIVE trimStart(_)
trimStart(chars) ==
  IF chars # <<>> /\ Head(chars) = " " THEN trimStart(Tail(chars)) ELSE chars
RECURSIVE trimEnd(_)
trimEnd(chars) ==
  IF chars # <<>> /\ chars[Len(chars)] = " "
    THEN trimEnd(SubSeq(chars, 1, Len(chars) - 1)) ELSE chars
trimString(chars) == trimEnd(trimStart(chars))

\* String.prototype.toLowerCase, on the characters of Languages.
toLowerCase(chars) ==
  [i \in 1..Len(chars) |->
     CASE chars[i] = "U" -> "u" [] chars[i] = "S" -> "s" [] chars[i] = "H" -> "h"
       [] chars[i] = "T" -> "t" [] chars[i] = "W" -> "w" [] OTHER -> chars[i]]

\* replace(/-/g, '_'), and replace('-', '_') which replaces the first only.
replaceFirstHyphen(chars) ==
  [i \in 1..Len(chars) |->
     IF chars[i] = "-" /\ \A j \in 1..(i - 1) : chars[j] # "-" THEN "_" ELSE chars[i]]
replaceHyphens(chars) ==
  [i \in 1..Len(chars) |-> IF chars[i] = "-" THEN "_" ELSE chars[i]]

\* The body requestTranscript posts (lines 316-334); audio_url is the upload
\* URL of the call.
SubmitBody(transcriptionSettings) ==
  LET language == trimString(transcriptionSettings.language) IN
  [speaker_labels |-> TRUE,
   language_code |-> IF language = <<>> THEN <<"e", "n", "_", "u", "s">>
                     ELSE replaceHyphens(toLowerCase(language)),
   punctuate |-> TRUE,
   format_text |-> TRUE,
   dual_channel |-> FALSE,
   disfluencies |-> transcriptionSettings.accuracySpeed = "accurate"]
NoBody == [speaker_labels |-> FALSE]

(***************************************************************************)
(* ActiveRecordingSession.  id names the startRecording call that created  *)
(* the session object (object identity); pauseStartedAt 0 is undefined.    *)
(***************************************************************************)
NoSession ==
  [id |-> 0, parentFile |-> NoFile, startedAt |-> 0,
   isPaused |-> FALSE, pauseStartedAt |-> 0, totalPausedMs |-> 0]

isRecording == session # NoSession

\* track.stop() on every track of the stream.
StopTracks(ss, s) == IF s = 0 THEN ss ELSE [ss EXCEPT ![s] = "ended"]

\* What Date.now() may return at a reading: the clock never runs backwards.
ClockReadings ==
  {now} \cup (IF ticks < limits.ticks THEN {now + d : d \in TickSteps} ELSE {})

\* The clock after a reading of t.
ReadClock(t) ==
  /\ now' = t
  /\ ticks' = IF t = now THEN ticks ELSE ticks + 1

(***************************************************************************)
(* A stopRecording call that consumed a session (its local variables).     *)
(*   pc             the operation the call is suspended at, or how it ended *)
(*   session        the `const session` snapshot taken at entry            *)
(*   rec            the recorder whose onstop resolves collectAudioBlob    *)
(*   blob           audioBlob: the chunks the Blob was built from          *)
(*   path           the path of the create call in flight                  *)
(*   audioFilePath  <<>> is undefined                                      *)
(*   apiKey         settings.assemblyAIKey as transcribeAudio read it:     *)
(*                  "set", "missing", or "unread" before that              *)
(*   transcription  whether transcribeAudio returned a result              *)
(*   transcript     the result it returned                                 *)
(*   attempt        waitForTranscript's loop counter                       *)
(*   requests       the requests sent to the transcription service         *)
(*   configured     settings.transcriptionSettings as requestTranscript    *)
(*                  read it                                                *)
(*   body           the body of the submit request, NoBody before it       *)
(*   replies        how its upload and submit requests were answered       *)
(*   polled         the statuses its status requests were answered with    *)
(*   serviceError   data.error of the answer whose status was "error"      *)
(*   failure        the detail in the "Transcription failed: ..." Notice   *)
(*   noteFile       <<>> is no note                                        *)
(*   text           the text of the modify call in flight                  *)
(*   summaryAsked   whether a summary request was sent                     *)
(*   summarySettings  what generateMeetingSummary found in the settings:   *)
(*                  "disabled", "no key", "ready", or "unread" before that *)
(*   completion     how the summary request ended: "ok", "empty",          *)
(*                  "failed", or "none" without one                        *)
(*   notices        the Notices the call has shown                         *)
(*   call, startsBefore, racing   which stopRecording call this is, how    *)
(*                  many startRecording calls had been issued when it was  *)
(*                  made, and whether one was waiting for the microphone   *)
(***************************************************************************)
NewStop(ses, r) ==
  [pc |-> "collect", session |-> ses, rec |-> r, blob |-> <<>>,
   path |-> <<>>, audioFilePath |-> <<>>, apiKey |-> "unread",
   transcription |-> FALSE, transcript |-> NoTranscript, attempt |-> 0, requests |-> <<>>,
   configured |-> DefaultTranscriptionSettings, body |-> NoBody,
   replies |-> <<>>, polled |-> <<>>,
   serviceError |-> "", failure |-> "",
   noteFile |-> <<>>, text |-> <<>>, summaryAsked |-> FALSE,
   summarySettings |-> "unread", completion |-> "none", notices |-> {},
   call |-> stopCalls + 1, startsBefore |-> startCalls, racing |-> starting # {}]

\* The stopRecording calls that have not returned yet.
Draining == {p \in 1..Len(stops) : stops[p].pc \notin {"done", "threw"}}

\* The vault a user has before the first recording: the note(s) a recording
\* can be tied to.  The audio and transcript folders do not exist yet.
InitialVault == {ParentPath(f) : f \in ParentFiles}

\* Audio files earlier recordings may have left in the audio folder: the
\* name a recording started at StartOfTime asks for, and suffixed names.
EarlierAudio ==
  LET a == AudioPath(StartOfTime) IN
  {a, NextCandidate(a, 1), NextCandidate(a, 2), NextCandidate(NextCandidate(a, 1), 2)}

InitWith(lim, files) ==
  /\ session = NoSession
  /\ mediaRecorder = 0
  /\ currentStream = 0
  /\ chunks = <<>>
  /\ recordingPanel = FALSE
  /\ notice = ""
  /\ streams = <<>>
  /\ recorders = <<>>
  /\ starting = {}
  /\ stops = <<>>
  /\ startCalls = 0
  /\ stopCalls = 0
  /\ now = StartOfTime
  /\ ticks = 0
  /\ vault = files
  /\ content = [f \in InitialVault |-> << <<"text">> >>]
  /\ faults = 0
  /\ limits = lim

(***************************************************************************)
(* The synchronous stretches of the stop pipeline, each from the point     *)
(* where an awaited operation settled to the next await.  q is the call's  *)
(* record, v the paths the vault holds at that moment.                     *)
(***************************************************************************)
Notify(q, message) == [q EXCEPT !.notices = @ \cup {message}]

\* An error no handler of stopRecording catches: the call's promise rejects.
Escapes(q) == [q EXCEPT !.pc = "threw"]

\* saveAudioFile from its entry (lines 201-210): ensureFolderExists, then the
\* unique path, then `await blob.arrayBuffer()`.
ChooseAudioPath(q, v) ==
  [q EXCEPT !.pc = "arrayBuffer",
            !.path = uniquePath(v, AudioPath(q.session.startedAt))]

BeginSaveNeedsAudio(q, v) ==
  IF q.blob = <<>> THEN Escapes(q)
  ELSE IF AudioFolder \in v THEN ChooseAudioPath(q, v)
  ELSE [q EXCEPT !.pc = "audioMkdir"]
BeginSave(q, v) ==
  IF AudioFolder \in v THEN ChooseAudioPath(q, v)
  ELSE [q EXCEPT !.pc = "audioMkdir"]

\* `if (!apiKey)` in transcribeAudio (line 218).
KeyNeverMissing(apiKey) == FALSE
KeyMissing(apiKey) == ~apiKey

\* transcribeAudio from its entry (lines 216-224) and, when it returns null at
\* once, the rest of stopRecording (lines 96-98).
BeginTranscribe(q, apiKey) ==
  IF KeyMissing(apiKey)
    THEN [Notify(Notify(q, "key missing"), "failed or skipped") EXCEPT
            !.apiKey = IF apiKey THEN "set" ELSE "missing", !.pc = "done"]
    ELSE [q EXCEPT !.apiKey = IF apiKey THEN "set" ELSE "missing",
                   !.pc = "upload", !.requests = Append(@, "upload")]

\* The catch block of saveAudioFile's caller (lines 90-93), then transcribeAudio.
SaveFailedAborts(q, apiKey) ==
  [Notify(q, "could not save audio") EXCEPT !.pc = "done"]
SaveFailed(q, apiKey) == BeginTranscribe(Notify(q, "could not save audio"), apiKey)

\* The error a request that did not succeed throws.  A rejected axios call
\* throws an error whose response holds the HTTP status and body, or none
\* when there was no reply; uploadAudio, requestTranscript and
\* waitForTranscript throw a plain Error (lines 308-310, 347-350, 375-378).
NoResponse == [status |-> 0, error |-> ""]
Thrown(answer) ==
  CASE answer.result = "failed" ->
         [message |-> "Request failed",
          response |-> [status |-> answer.http, error |-> answer.error]]
    [] answer.result = "error" ->
         [message |-> IF answer.error # "" THEN answer.error
                      ELSE "AssemblyAI returned an error.",
          response |-> NoResponse]
    [] OTHER ->
         [message |-> "AssemblyAI did not return what was asked for.",
          response |-> NoResponse]
TimedOut == [message |-> "Transcription timed out.", response |-> NoResponse]

\* `data?.error || status || 'see console for details'` (lines 229-234).
NoticeDetail(error) ==
  IF error.response.error # "" THEN error.response.error
  ELSE IF error.response.status # 0 THEN ToString(error.response.status)
  ELSE "see console for details"

\* The catch block of transcribeAudio (lines 228-235), then lines 96-98.
TranscribeFailedGoesOn(q, error) ==
  [Notify(q, "transcription failed") EXCEPT
     !.pc = "noteMkdir", !.failure = NoticeDetail(error)]
TranscribeFailed(q, error) ==
  [Notify(Notify(q, "transcription failed"), "failed or skipped") EXCEPT
     !.pc = "done", !.failure = NoticeDetail(error)]

\* createTranscriptionNote from the unique path to `await vault.create(...)`
\* (lines 249-260).
IssueNoteCreateFromManager(q, v) ==
  [q EXCEPT !.pc = "noteWrite",
            !.path = uniquePath(v, NotePath(session.parentFile, session.startedAt)),
            !.text = NoteContent(q.transcript, session.parentFile, q.audioFilePath,
                                 session.startedAt)]
IssueNoteCreate(q, v) ==
  [q EXCEPT !.pc = "noteWrite",
            !.path = uniquePath(v, NotePath(q.session.parentFile, q.session.startedAt)),
            !.text = NoteContent(q.transcript, q.session.parentFile, q.audioFilePath,
                                 q.session.startedAt)]

\* createTranscriptionNote from its entry (lines 244-246).
BeginNote(q, v) ==
  IF TranscriptionFolder \in v THEN IssueNoteCreate(q, v)
  ELSE [q EXCEPT !.pc = "noteMkdir"]

\* Line 110: the last statement of stopRecording.
Complete(q) == [Notify(q, "recording complete") EXCEPT !.pc = "done"]

\* appendMeetingSummary from its entry and generateMeetingSummary up to its
\* request (recording.ts 284-286, summary.ts 69-74); without a request the
\* summary is null and stopRecording ends.
BeginSummaryAlwaysAsks(q, autoSummarise, openAiApiKey) ==
  [q EXCEPT !.pc = "summary", !.summaryAsked = TRUE,
            !.summarySettings = IF ~autoSummarise THEN "disabled"
                                ELSE IF ~openAiApiKey THEN "no key" ELSE "ready"]
BeginSummary(q, autoSummarise, openAiApiKey) ==
  IF ~autoSummarise THEN Complete([q EXCEPT !.summarySettings = "disabled"])
  ELSE IF ~openAiApiKey THEN Complete([q EXCEPT !.summarySettings = "no key"])
  ELSE [q EXCEPT !.pc = "summary", !.summaryAsked = TRUE,
                 !.summarySettings = "ready"]

\* stopRecording after createTranscriptionNote returned (lines 102-108).
AfterNote(q, autoSummarise, openAiApiKey) ==
  IF q.session.parentFile # NoFile THEN [q EXCEPT !.pc = "linkRead"]
  ELSE BeginSummary(q, autoSummarise, openAiApiKey)

(***************************************************************************)
(* startRecording                                                          *)
(***************************************************************************)
\* `if (this.session)`: the only check startRecording makes before it asks
\* for the microphone.
NeverInProgress == FALSE
AlreadyInProgress == session # NoSession

\* startRecording(parentFile) up to `await getUserMedia(...)` (lines 44-51).
\* The callers in main.ts test isRecording first, which is the same condition.
startRecording(parentFile) ==
  /\ startCalls < limits.starts
  /\ startCalls' = startCalls + 1
  /\ IF AlreadyInProgress
       THEN /\ notice' = "Recording already in progress."
            /\ starting' = starting
       ELSE /\ notice' = notice
            /\ starting' = starting \cup
                             {[id |-> startCalls + 1, parentFile |-> parentFile]}
  /\ UNCHANGED <<session, mediaRecorder, currentStream, chunks, recordingPanel,
                 deviceVars, stops, stopCalls, clockVars, hostVars, limits>>

\* getUserMedia resolved and the recorder was constructed and started
\* (lines 52-65).
StartGranted(c) ==
  LET s == Len(streams) + 1
      r == Len(recorders) + 1
  IN  /\ c \in starting
      /\ starting' = starting \ {c}
      /\ streams' = Append(streams, "live")
      /\ currentStream' = s
      /\ recorders' = Append(recorders,
                        [stream |-> s, state |-> "recording", emitted |-> 0,
                         stopQueued |-> FALSE, onstop |-> 0])
      /\ mediaRecorder' = r
      /\ chunks' = <<>>
      /\ \E t \in ClockReadings :
           /\ ReadClock(t)
           /\ session' = [id |-> c.id, parentFile |-> c.parentFile, startedAt |-> t,
                          isPaused |-> FALSE, pauseStartedAt |-> 0,
                          totalPausedMs |-> 0]
      /\ recordingPanel' = TRUE
      /\ notice' = "Recording started."
      /\ UNCHANGED <<stops, callVars, hostVars, limits>>

\* getUserMedia resolved but `new MediaRecorder(stream)` threw: line 52 ran,
\* then the catch block with cleanupStream (lines 66-70, 131-137).
StartRecorderFails(c) ==
  /\ c \in starting
  /\ starting' = starting \ {c}
  /\ streams' = Append(streams, "ended")
  /\ currentStream' = 0
  /\ mediaRecorder' = 0
  /\ notice' = "Unable to access microphone."
  /\ UNCHANGED <<session, chunks, recordingPanel, recorders, stops, callVars,
                 clockVars, hostVars, limits>>

\* getUserMedia rejected (permission denied, no input device): the catch
\* block runs cleanupStream on whatever stream the manager holds.
StartDenied(c) ==
  /\ c \in starting
  /\ starting' = starting \ {c}
  /\ streams' = StopTracks(streams, currentStream)
  /\ currentStream' = 0
  /\ mediaRecorder' = 0
  /\ notice' = "Unable to access microphone."
  /\ UNCHANGED <<session, chunks, recordingPanel, recorders, stops, callVars,
                 clockVars, hostVars, limits>>

(***************************************************************************)
(* The recorder's dataavailable events before stop().                      *)
(***************************************************************************)
\* ondataavailable (lines 56-60) of recorder r, with event.data.size > 0.
\* The handler pushes to whatever array this.chunks is at that moment.
DataAvailable(r) ==
  /\ recorders[r].state = "recording"
  /\ recorders[r].emitted < limits.chunks
  /\ chunks' = Append(chunks, [rec |-> r, n |-> recorders[r].emitted + 1])
  /\ recorders' = [recorders EXCEPT ![r].emitted = @ + 1]
  /\ UNCHANGED <<session, mediaRecorder, currentStream, recordingPanel, notice,
                 streams, starting, stops, callVars, clockVars, hostVars, limits>>

(***************************************************************************)
(* pause / resume (the status panel's Pause/Resume button)                 *)
(***************************************************************************)
\* pauseRecording (lines 139-151), Date.now() returning t.
pauseRecordingWhilePaused(t) ==
  IF mediaRecorder = 0 \/ session = NoSession
    THEN UNCHANGED <<session, recorders, clockVars>>
    ELSE /\ recorders' = IF recorders[mediaRecorder].state = "recording"
                           THEN [recorders EXCEPT ![mediaRecorder].state = "paused"]
                           ELSE recorders
         /\ session' = [session EXCEPT !.isPaused = TRUE, !.pauseStartedAt = t]
         /\ ReadClock(t)
pauseRecording(t) ==
  IF mediaRecorder = 0 \/ session = NoSession \/ session.isPaused
    THEN UNCHANGED <<session, recorders, clockVars>>
    ELSE /\ recorders' = IF recorders[mediaRecorder].state = "recording"
                           THEN [recorders EXCEPT ![mediaRecorder].state = "paused"]
                           ELSE recorders
         /\ session' = [session EXCEPT !.isPaused = TRUE, !.pauseStartedAt = t]
         /\ ReadClock(t)

\* resumeRecording (lines 153-171), Date.now() returning t.
resumeRecordingKeepsPauseStart(t) ==
  IF mediaRecorder = 0 \/ session = NoSession \/ ~session.isPaused
    THEN UNCHANGED <<session, recorders, clockVars>>
    ELSE /\ recorders' = IF recorders[mediaRecorder].state = "paused"
                           THEN [recorders EXCEPT ![mediaRecorder].state = "recording"]
                           ELSE recorders
         /\ session' = [session EXCEPT
                          !.totalPausedMs =
                             IF session.pauseStartedAt # 0
                               THEN @ + (t - session.pauseStartedAt) ELSE @,
                          !.isPaused = FALSE]
         /\ ReadClock(t)
resumeRecordingLastPauseOnly(t) ==
  IF mediaRecorder = 0 \/ session = NoSession \/ ~session.isPaused
    THEN UNCHANGED <<session, recorders, clockVars>>
    ELSE /\ recorders' = IF recorders[mediaRecorder].state = "paused"
                           THEN [recorders EXCEPT ![mediaRecorder].state = "recording"]
                           ELSE recorders
         /\ session' = [session EXCEPT
                          !.totalPausedMs =
                             IF session.pauseStartedAt # 0
                               THEN t - session.pauseStartedAt ELSE @,
                          !.pauseStartedAt = 0,
                          !.isPaused = FALSE]
         /\ ReadClock(t)
resumeRecording(t) ==
  IF mediaRecorder = 0 \/ session = NoSession \/ ~session.isPaused
    THEN UNCHANGED <<session, recorders, clockVars>>
    ELSE /\ recorders' = IF recorders[mediaRecorder].state = "paused"
                           THEN [recorders EXCEPT ![mediaRecorder].state = "recording"]
                           ELSE recorders
         /\ session' = [session EXCEPT
                          !.totalPausedMs =
                             IF session.pauseStartedAt # 0
                               THEN @ + (t - session.pauseStartedAt) ELSE @,
                          !.pauseStartedAt = 0,
                          !.isPaused = FALSE]
         /\ ReadClock(t)

\* getElapsedRecordingMs (lines 173-179), Date.now() returning t both times.
ElapsedIgnoringPause(t) ==
  IF session = NoSession THEN 0
  ELSE LET ms == t - session.startedAt - session.totalPausedMs
       IN  IF ms > 0 THEN ms ELSE 0
getElapsedRecordingMs(t) ==
  IF session = NoSession THEN 0
  ELSE LET currentPause == IF session.isPaused /\ session.pauseStartedAt # 0
                             THEN t - session.pauseStartedAt ELSE 0
           ms == t - session.startedAt - session.totalPausedMs - currentPause
       IN  IF ms > 0 THEN ms ELSE 0

\* RecordingStatusPanel.updateTimerDisplay (lines 510-514), run every 500 ms
\* while the panel is open (line 479): it reads the clock for the elapsed time.
updateTimerDisplay ==
  /\ recordingPanel
  /\ \E t \in ClockReadings : ReadClock(t)
  /\ UNCHANGED <<managerVars, deviceVars, starting, stops, callVars, hostVars, limits>>

\* RecordingStatusPanel.handlePauseResume (lines 516-523): the button exists
\* while the panel is open.
handlePauseResume ==
  /\ recordingPanel
  /\ \E t \in ClockReadings :
       IF session.isPaused THEN resumeRecording(t) ELSE pauseRecording(t)
  /\ UNCHANGED <<mediaRecorder, currentStream, chunks, recordingPanel, notice,
                 streams, starting, stops, callVars, hostVars, limits>>

(***************************************************************************)
(* stopRecording                                                           *)
(***************************************************************************)
\* `if (!this.session || !this.mediaRecorder)`
NothingRunning == session = NoSession \/ mediaRecorder = 0

\* this.session after stopRecording took its snapshot (line 81).
SessionKeptAfterStop == session
SessionAfterStop == NoSession

\* stopRecording up to `await this.collectAudioBlob()`: either the rejection
\* (lines 74-78) or lines 80-84 with collectAudioBlob's executor, which sets
\* onstop on the current recorder and calls stop() on it (lines 113-129).
stopRecording ==
  /\ stopCalls < limits.stops
  /\ NothingRunning \/ Cardinality(Draining) < limits.draining
  /\ stopCalls' = stopCalls + 1
  /\ recordingPanel' = FALSE
  /\ IF NothingRunning
       THEN /\ notice' = "No recording is currently running."
            /\ UNCHANGED <<session, recorders, stops>>
       ELSE /\ notice' = notice
            /\ stops' = Append(stops,
                          NewStop([id |-> session.id,
                                   parentFile |-> session.parentFile,
                                   startedAt |-> session.startedAt],
                                  mediaRecorder))
            /\ session' = SessionAfterStop
            /\ recorders' = [recorders EXCEPT
                               ![mediaRecorder].state = "inactive",
                               ![mediaRecorder].stopQueued = TRUE,
                               ![mediaRecorder].onstop = Len(stops) + 1]
  /\ UNCHANGED <<mediaRecorder, currentStream, chunks, streams, starting,
                 startCalls, clockVars, hostVars, limits>>

\* What `new Blob(this.chunks)` in onstop holds (line 122), the recorder's
\* last data having been pushed if it was not empty.
BlobOf(buffered) == buffered

\* The stream cleanupStream stops (lines 132-134).
StreamToRelease == currentStream

\* The task stop() queued on recorder r: a last dataavailable (its data may be
\* empty), then the stop event.  onstop (lines 120-125) builds the Blob from
\* this.chunks, clears this.chunks and resolves; the continuation of
\* stopRecording runs cleanupStream (line 85) and enters saveAudioFile.
RecorderStopped(r) ==
  /\ recorders[r].stopQueued
  /\ \E size \in {0, 1} :
       LET p == recorders[r].onstop
           buffered == IF size > 0
                         THEN Append(chunks, [rec |-> r, n |-> recorders[r].emitted + 1])
                         ELSE chunks
       IN  /\ recorders' = [recorders EXCEPT
                              ![r].stopQueued = FALSE,
                              ![r].emitted = @ + size]
           /\ chunks' = <<>>
           /\ stops' = [stops EXCEPT
                          ![p] = BeginSave([@ EXCEPT !.blob = BlobOf(buffered)], vault)]
           /\ streams' = StopTracks(streams, StreamToRelease)
           /\ currentStream' = 0
           /\ mediaRecorder' = 0
  /\ UNCHANGED <<session, recordingPanel, notice, starting, callVars, clockVars,
                 hostVars, limits>>

(***************************************************************************)
(* The stop pipeline after the capture was finalized: one action for each  *)
(* awaited operation settling.  A host call that creates a path fails when *)
(* the path exists by then, and may fail for reasons of its own.           *)
(***************************************************************************)
pipelineFrame ==
  UNCHANGED <<managerVars, deviceVars, starting, callVars, clockVars, limits>>

At(p, pc) == p \in 1..Len(stops) /\ stops[p].pc = pc

\* Whether an awaited host operation may succeed or fail, and the responses
\* a request may get: a failure is possible while the specification's
\* budget of failures lasts.
Outcomes == IF faults < limits.faults THEN BOOLEAN ELSE {TRUE}
\* A reply is "ok" with what was asked for, "empty" without it, "failed" when
\* the request was rejected: no reply at all (http 0), or an HTTP error
\* status whose body may hold an error message.
ServiceMessages == {"", "audio too short"}
Replies(result, https, errors) ==
  {[result |-> result, http |-> h, error |-> e, transcript |-> NoTranscript] :
     h \in https, e \in errors}

\* The transcripts the service may complete with: text only, or utterances
\* up to the specification's bound.
Transcripts ==
  {PlainTranscript} \cup
  {[text |-> "transcript", utterances |-> us] :
     us \in UNION {[1..n -> Utterances] : n \in 1..limits.utterances}}
Failures == Replies("failed", {0, 500}, {""}) \cup Replies("failed", {400}, ServiceMessages)
Responses ==
  Replies("ok", {200}, {""})
    \cup (IF faults < limits.faults
           THEN Replies("empty", {200}, {""}) \cup Failures ELSE {})
Count(failed) == faults' = IF failed THEN faults + 1 ELSE faults

\* vault.createFolder(audio folder) settled (line 203 via 583-589).
AudioFolderCreated(p) ==
  /\ At(p, "audioMkdir")
  /\ \E ok \in Outcomes, apiKey \in BOOLEAN :
       /\ Count(~ok)
       /\ IF ok /\ AudioFolder \notin vault
            THEN /\ vault' = vault \cup {AudioFolder}
                 /\ stops' = [stops EXCEPT ![p] = ChooseAudioPath(@, vault')]
            ELSE /\ vault' = vault
                 /\ stops' = [stops EXCEPT ![p] = SaveFailed(@, apiKey)]
  /\ UNCHANGED content
  /\ pipelineFrame

\* blob.arrayBuffer() settled; vault.createBinary is called (lines 210-211).
BlobRead(p) ==
  /\ At(p, "arrayBuffer")
  /\ stops' = [stops EXCEPT ![p].pc = "audioWrite"]
  /\ UNCHANGED hostVars
  /\ pipelineFrame

\* vault.createBinary settled (lines 211-212, 89-95).
AudioWritten(p) ==
  /\ At(p, "audioWrite")
  /\ \E ok \in Outcomes, apiKey \in BOOLEAN :
       /\ Count(~ok)
       /\ IF ok /\ stops[p].path \notin vault
            THEN /\ vault' = vault \cup {stops[p].path}
                 /\ stops' = [stops EXCEPT
                                ![p] = BeginTranscribe(
                                         [@ EXCEPT !.audioFilePath = stops[p].path],
                                         apiKey)]
            ELSE /\ vault' = vault
                 /\ stops' = [stops EXCEPT ![p] = SaveFailed(@, apiKey)]
  /\ UNCHANGED content
  /\ pipelineFrame

\* uploadAudio after its request settled (lines 308-312, 225): "ok" carries
\* an upload_url, "empty" does not, "failed" is a transport or HTTP failure.
AfterUploadNeedsNoUrl(q, response, transcriptionSettings) ==
  LET got == [q EXCEPT !.replies = Append(@, response.result)] IN
  IF response.result # "failed"
    THEN [got EXCEPT !.pc = "submit", !.requests = Append(@, "submit"),
                     !.configured = transcriptionSettings,
                     !.body = SubmitBody(transcriptionSettings)]
    ELSE TranscribeFailed(got, Thrown(response))
AfterUpload(q, response, transcriptionSettings) ==
  LET got == [q EXCEPT !.replies = Append(@, response.result)] IN
  IF response.result = "ok"
    THEN [got EXCEPT !.pc = "submit", !.requests = Append(@, "submit"),
                     !.configured = transcriptionSettings,
                     !.body = SubmitBody(transcriptionSettings)]
    ELSE TranscribeFailed(got, Thrown(response))

UploadDone(p) ==
  /\ At(p, "upload")
  /\ \E response \in Responses,
        transcriptionSettings \in [language : limits.languages,
                                   accuracySpeed : limits.modes] :
       /\ Count(response.result # "ok")
       /\ stops' = [stops EXCEPT ![p] = AfterUpload(@, response, transcriptionSettings)]
  /\ UNCHANGED <<vault, content>>
  /\ pipelineFrame

\* requestTranscript after its request settled (lines 347-352, 226): "ok"
\* carries an id.
AfterSubmit(q, response) ==
  LET got == [q EXCEPT !.replies = Append(@, response.result)] IN
  IF response.result = "ok"
    THEN [got EXCEPT !.pc = "poll", !.requests = Append(@, "poll")]
    ELSE TranscribeFailed(got, Thrown(response))

SubmitDone(p) ==
  /\ At(p, "submit")
  /\ \E response \in Responses :
       /\ Count(response.result # "ok")
       /\ stops' = [stops EXCEPT ![p] = AfterSubmit(@, response)]
  /\ UNCHANGED <<vault, content>>
  /\ pipelineFrame

\* `attempt < 40`, the condition of waitForTranscript's loop (line 358).
BudgetNeverEnds(attempt) == TRUE
WithinBudget(attempt) == attempt < PollBudget

\* One turn of waitForTranscript's loop after the status request settled
\* (lines 365-383), with the delay that follows a non-terminal status:
\* "pending" is queued or processing, "failed" a transport or HTTP failure.
AfterPollErrorRetries(q, data, v) ==
  LET got == [q EXCEPT !.polled = Append(@, data.result)] IN
  CASE data.result = "completed" ->
         BeginNote([got EXCEPT !.transcription = TRUE,
                               !.transcript = data.transcript], v)
    [] data.result \in {"pending", "error"} ->
         IF WithinBudget(q.attempt + 1)
           THEN [got EXCEPT !.attempt = @ + 1, !.requests = Append(@, "poll")]
           ELSE TranscribeFailed([got EXCEPT !.attempt = @ + 1], TimedOut)
    [] OTHER -> TranscribeFailed(got, Thrown(data))
AfterPollRetriesFailure(q, data, v) ==
  LET got == [q EXCEPT !.polled = Append(@, data.result)] IN
  CASE data.result = "completed" ->
         BeginNote([got EXCEPT !.transcription = TRUE,
                               !.transcript = data.transcript], v)
    [] data.result \in {"pending", "failed"} ->
         IF WithinBudget(q.attempt + 1)
           THEN [got EXCEPT !.attempt = @ + 1, !.requests = Append(@, "poll")]
           ELSE TranscribeFailed([got EXCEPT !.attempt = @ + 1], TimedOut)
    [] data.result = "error" ->
         TranscribeFailed([got EXCEPT !.serviceError = data.error], Thrown(data))
    [] OTHER -> TranscribeFailed(got, Thrown(data))
AfterPoll(q, data, v) ==
  LET got == [q EXCEPT !.polled = Append(@, data.result)] IN
  CASE data.result = "completed" ->
         BeginNote([got EXCEPT !.transcription = TRUE,
                               !.transcript = data.transcript], v)
    [] data.result = "pending" ->
         IF WithinBudget(q.attempt + 1)
           THEN [got EXCEPT !.attempt = @ + 1, !.requests = Append(@, "poll")]
           ELSE TranscribeFailed([got EXCEPT !.attempt = @ + 1], TimedOut)
    [] data.result = "error" ->
         TranscribeFailed([got EXCEPT !.serviceError = data.error], Thrown(data))
    [] OTHER -> TranscribeFailed(got, Thrown(data))

\* The answers the service may give the call's next status request:
\* completed, an error status with or without a message, a rejected request,
\* or a status of queued or processing.
PollAnswers(q) ==
  {[result |-> "completed", http |-> 200, error |-> "", transcript |-> t] :
     t \in Transcripts}
    \cup (IF faults < limits.faults
           THEN Replies("error", {200}, ServiceMessages) \cup Failures ELSE {})
    \cup (IF q.attempt < limits.slowPolls THEN Replies("pending", {200}, {""}) ELSE {})

\* A status request settled (lines 359-381).
PollDone(p) ==
  /\ At(p, "poll")
  /\ \E data \in PollAnswers(stops[p]) :
       /\ Count(data.result \in {"error", "failed"})
       /\ stops' = [stops EXCEPT ![p] = AfterPoll(@, data, vault)]
  /\ UNCHANGED <<vault, content>>
  /\ pipelineFrame

\* vault.createFolder(transcript folder) settled (line 246 via 583-589); a
\* failure is caught nowhere.
NoteFolderCreated(p) ==
  /\ At(p, "noteMkdir")
  /\ \E ok \in Outcomes :
       /\ Count(~ok)
       /\ IF ok /\ TranscriptionFolder \notin vault
            THEN /\ vault' = vault \cup {TranscriptionFolder}
                 /\ stops' = [stops EXCEPT ![p] = IssueNoteCreate(@, vault')]
            ELSE /\ vault' = vault
                 /\ stops' = [stops EXCEPT ![p] = Escapes(@)]
  /\ UNCHANGED content
  /\ pipelineFrame

\* vault.create(notePath, content) settled (lines 260-261, 101-108).
NoteWritten(p) ==
  /\ At(p, "noteWrite")
  /\ \E ok \in Outcomes, autoSummarise \in BOOLEAN, openAiApiKey \in BOOLEAN :
       LET q == stops[p] IN
       /\ Count(~ok)
       /\ IF ok /\ q.path \notin vault
            THEN /\ vault' = vault \cup {q.path}
                 /\ content' = [f \in DOMAIN content \cup {q.path} |->
                                  IF f = q.path THEN q.text ELSE content[f]]
                 /\ stops' = [stops EXCEPT
                                ![p] = AfterNote([q EXCEPT !.noteFile = q.path],
                                                 autoSummarise, openAiApiKey)]
            ELSE /\ UNCHANGED <<vault, content>>
                 /\ stops' = [stops EXCEPT ![p] = Escapes(@)]
  /\ pipelineFrame

\* appendLinkToParent after vault.read(parentFile) settled (lines 265-280).
AfterLinkRead(q, text, autoSummarise, openAiApiKey) ==
  LET link == WikiLink(TFileBasename(q.noteFile))
  IN  IF HasLink(text, link)
        THEN BeginSummary(q, autoSummarise, openAiApiKey)
        ELSE [q EXCEPT !.pc = "linkWrite", !.text = appendLinkToParent(text, link)]

LinkRead(p) ==
  /\ At(p, "linkRead")
  /\ \E ok \in Outcomes, autoSummarise \in BOOLEAN, openAiApiKey \in BOOLEAN :
       LET q == stops[p] IN
       /\ Count(~ok)
       /\ stops' = [stops EXCEPT ![p] =
                      IF ~ok THEN Escapes(q)
                      ELSE AfterLinkRead(q, content[ParentPath(q.session.parentFile)],
                                         autoSummarise, openAiApiKey)]
  /\ UNCHANGED <<vault, content>>
  /\ pipelineFrame

\* vault.modify(parentFile, updated) settled (lines 280, 106-108).
LinkWritten(p) ==
  /\ At(p, "linkWrite")
  /\ \E ok \in Outcomes, autoSummarise \in BOOLEAN, openAiApiKey \in BOOLEAN :
       LET q == stops[p] IN
       /\ Count(~ok)
       /\ IF ok
            THEN /\ content' = [content EXCEPT
                                  ![ParentPath(q.session.parentFile)] = q.text]
                 /\ stops' = [stops EXCEPT
                                ![p] = BeginSummary(q, autoSummarise, openAiApiKey)]
            ELSE /\ UNCHANGED content
                 /\ stops' = [stops EXCEPT ![p] = Escapes(q)]
  /\ UNCHANGED vault
  /\ pipelineFrame

\* generateMeetingSummary after its request settled and appendMeetingSummary
\* up to its read (summary.ts 93-98, recording.ts 287-290): "ok" carries a
\* completion, "empty" none, "failed" is caught in generateMeetingSummary.
AfterSummary(q, response) ==
  CASE response.result = "ok" -> [q EXCEPT !.pc = "summaryRead", !.completion = "ok"]
    [] response.result = "empty" -> Complete([q EXCEPT !.completion = "empty"])
    [] OTHER -> Complete(Notify([q EXCEPT !.completion = "failed"], "summary failed"))

SummaryDone(p) ==
  /\ At(p, "summary")
  /\ \E response \in Responses :
       /\ Count(response.result # "ok")
       /\ stops' = [stops EXCEPT ![p] = AfterSummary(@, response)]
  /\ UNCHANGED <<vault, content>>
  /\ pipelineFrame

\* appendMeetingSummary after vault.read(noteFile) settled (lines 290-294).
AfterSummaryRead(q, text) ==
  IF HasSummary(text) THEN Complete(q)
  ELSE [q EXCEPT !.pc = "summaryWrite", !.text = appendMeetingSummary(text)]

SummaryRead(p) ==
  /\ At(p, "summaryRead")
  /\ \E ok \in Outcomes :
       LET q == stops[p] IN
       /\ Count(~ok)
       /\ stops' = [stops EXCEPT ![p] =
                      IF ~ok THEN Escapes(q) ELSE AfterSummaryRead(q, content[q.noteFile])]
  /\ UNCHANGED <<vault, content>>
  /\ pipelineFrame

\* vault.modify(noteFile, updated) settled (lines 294, 110).
SummaryWritten(p) ==
  /\ At(p, "summaryWrite")
  /\ \E ok \in Outcomes :
       LET q == stops[p] IN
       /\ Count(~ok)
       /\ IF ok
            THEN /\ content' = [content EXCEPT ![q.noteFile] = q.text]
                 /\ stops' = [stops EXCEPT ![p] = Complete(q)]
            ELSE /\ UNCHANGED content
                 /\ stops' = [stops EXCEPT ![p] = Escapes(q)]
  /\ UNCHANGED vault
  /\ pipelineFrame

Recorders == 1..Len(recorders)
Stops == 1..Len(stops)

Next ==
  \/ \E f \in ParentFiles \cup {NoFile} : startRecording(f)
  \/ \E c \in starting : StartGranted(c)
  \/ \E c \in starting : StartRecorderFails(c)
  \/ \E c \in starting : StartDenied(c)
  \/ \E r \in Recorders : DataAvailable(r)
  \/ handlePauseResume
  \/ updateTimerDisplay
  \/ stopRecording
  \/ \E r \in Recorders : RecorderStopped(r)
  \/ \E p \in Stops : AudioFolderCreated(p)
  \/ \E p \in Stops : BlobRead(p)
  \/ \E p \in Stops : AudioWritten(p)
  \/ \E p \in Stops : UploadDone(p)
  \/ \E p \in Stops : SubmitDone(p)
  \/ \E p \in Stops : PollDone(p)
  \/ \E p \in Stops : NoteFolderCreated(p)
  \/ \E p \in Stops : NoteWritten(p)
  \/ \E p \in Stops : LinkRead(p)
  \/ \E p \in Stops : LinkWritten(p)
  \/ \E p \in Stops : SummaryDone(p)
  \/ \E p \in Stops : SummaryRead(p)
  \/ \E p \in Stops : SummaryWritten(p)

Init ==
  InitWith([starts |-> MaxStartCalls, stops |-> MaxStopCalls, chunks |-> MaxChunks,
            ticks |-> MaxTicks, slowPolls |-> MaxSlowPolls, faults |-> MaxFaults,
            draining |-> MaxDraining,
            utterances |-> MaxUtterances,
            timestamps |-> OneTimestamp,
            languages |-> {DefaultTranscriptionSettings.language},
            modes |-> {DefaultTranscriptionSettings.accuracySpeed}], InitialVault)

\* The lifecycle specification: overlapping start and stop calls, every host
\* and service operation succeeding.
Spec == Init /\ [][Next]_vars

\* The pipeline specification: one recording, host and service operations
\* that may fail.
InitPipeline ==
  InitWith([starts |-> PipelineStartCalls, stops |-> PipelineStopCalls,
            chunks |-> MaxChunks, ticks |-> MaxTicks,
            slowPolls |-> PipelineSlowPolls, faults |-> PipelineFaults,
            draining |-> PipelineDraining,
            utterances |-> MaxUtterances,
            timestamps |-> OneTimestamp,
            languages |-> {DefaultTranscriptionSettings.language},
            modes |-> {DefaultTranscriptionSettings.accuracySpeed}], InitialVault)

SpecPipeline == InitPipeline /\ [][Next]_vars

\* The polling specification: one recording whose transcript the service may
\* leave pending up to waitForTranscript's whole budget and beyond it.
InitPoll ==
  InitWith([starts |-> PollStartCalls, stops |-> PollStopCalls,
            chunks |-> MaxChunks, ticks |-> MaxTicks,
            slowPolls |-> PollBudget + 1, faults |-> PollFaults,
            draining |-> MaxDraining,
            utterances |-> MaxUtterances,
            timestamps |-> OneTimestamp,
            languages |-> {DefaultTranscriptionSettings.language},
            modes |-> {DefaultTranscriptionSettings.accuracySpeed}], InitialVault)

SpecPoll == InitPoll /\ [][Next]_vars

\* The path specification: one recording into a vault whose audio folder
\* holds any of the files of EarlierAudio.
InitPaths ==
  \E earlier \in SUBSET EarlierAudio :
    InitWith([starts |-> PollStartCalls, stops |-> PollStopCalls,
              chunks |-> MaxChunks, ticks |-> MaxTicks,
              slowPolls |-> MaxSlowPolls, faults |-> MaxFaults,
              draining |-> MaxDraining,
            utterances |-> MaxUtterances,
            timestamps |-> OneTimestamp,
            languages |-> {DefaultTranscriptionSettings.language},
            modes |-> {DefaultTranscriptionSettings.accuracySpeed}],
             InitialVault \cup earlier
               \cup (IF earlier = {} THEN {} ELSE {AudioFolder}))

SpecPaths == InitPaths /\ [][Next]_vars

\* The clock specification: one recording, paused and resumed while the
\* clock advances.
InitClock ==
  InitWith([starts |-> PollStartCalls, stops |-> PollStopCalls,
            chunks |-> MaxChunks, ticks |-> ClockTicks,
            slowPolls |-> MaxSlowPolls, faults |-> MaxFaults,
            draining |-> MaxDraining,
            utterances |-> MaxUtterances,
            timestamps |-> OneTimestamp,
            languages |-> {DefaultTranscriptionSettings.language},
            modes |-> {DefaultTranscriptionSettings.accuracySpeed}], InitialVault)

SpecClock == InitClock /\ [][Next]_vars

\* The transcript specification: one recording whose transcript holds up to
\* TranscriptUtterances utterances.
InitTranscript ==
  InitWith([starts |-> PollStartCalls, stops |-> PollStopCalls,
            chunks |-> MaxChunks, ticks |-> MaxTicks,
            slowPolls |-> MaxSlowPolls, faults |-> MaxFaults,
            draining |-> MaxDraining,
            utterances |-> TranscriptUtterances,
            timestamps |-> OneTimestamp,
            languages |-> {DefaultTranscriptionSettings.language},
            modes |-> {DefaultTranscriptionSettings.accuracySpeed}], InitialVault)

SpecTranscript == InitTranscript /\ [][Next]_vars

\* The timestamp specification: one recording whose transcript holds
\* utterances that start at any of Timestamps.
InitTimestamp ==
  InitWith([starts |-> PollStartCalls, stops |-> PollStopCalls,
            chunks |-> MaxChunks, ticks |-> MaxTicks,
            slowPolls |-> MaxSlowPolls, faults |-> MaxFaults,
            draining |-> MaxDraining,
            utterances |-> TimestampUtterances,
            timestamps |-> Timestamps,
            languages |-> {DefaultTranscriptionSettings.language},
            modes |-> {DefaultTranscriptionSettings.accuracySpeed}], InitialVault)

SpecTimestamp == InitTimestamp /\ [][Next]_vars

\* The submit specification: one recording, the transcription settings
\* holding any of Languages and AccuracyModes.
InitSubmit ==
  InitWith([starts |-> PollStartCalls, stops |-> PollStopCalls,
            chunks |-> MaxChunks, ticks |-> MaxTicks,
            slowPolls |-> MaxSlowPolls, faults |-> MaxFaults,
            draining |-> MaxDraining,
            utterances |-> MaxUtterances,
            timestamps |-> OneTimestamp,
            languages |-> Languages,
            modes |-> AccuracyModes], InitialVault)

SpecSubmit == InitSubmit /\ [][Next]_vars

\* The overlap specification: two recordings, the second one stopped while
\* the pipeline of the first is still draining.
InitOverlap ==
  InitWith([starts |-> MaxStartCalls, stops |-> MaxStopCalls,
            chunks |-> MaxChunks, ticks |-> MaxTicks,
            slowPolls |-> MaxSlowPolls, faults |-> MaxFaults,
            draining |-> OverlapDraining,
            utterances |-> MaxUtterances,
            timestamps |-> OneTimestamp,
            languages |-> {DefaultTranscriptionSettings.language},
            modes |-> {DefaultTranscriptionSettings.accuracySpeed}], InitialVault)

SpecOverlap == InitOverlap /\ [][Next]_vars

(***************************************************************************)
(* Properties.                                                             *)
(***************************************************************************)
\* The stopRecording calls that returned or rejected.
Returned == {"done", "threw"}

\* The manager holds no session, no recorder and no stream.
Idle == session = NoSession /\ mediaRecorder = 0 /\ currentStream = 0

\* The streams whose tracks were not stopped.
LiveStreams == {s \in 1..Len(streams) : streams[s] = "live"}

\* The status requests a stopRecording call sent.
PollsSent(q) == Len(SelectSeq(q.requests, LAMBDA x : x = "poll"))

\* C1: in every reachable state, whatever the interleaving of startRecording
\* and stopRecording calls (two startRecording calls suspended at the
\* microphone request included), at most one microphone capture is open and
\* unreleased.
C1_AtMostOneCaptureOpen == Cardinality(LiveStreams) <= 1

\* C2: a startRecording call made while a session is active is rejected with
\* a notice and changes no field of the session, nor the recorder, the
\* stream or the chunk buffer, and asks for no microphone.
C2_RejectedStartChangesNothing ==
  [][(startCalls' = startCalls + 1 /\ session # NoSession)
       => /\ notice' = "Recording already in progress."
          /\ UNCHANGED <<session, mediaRecorder, currentStream, chunks,
                         streams, recorders, starting, stops>>]_vars

C2_RejectedWhilePaused ==
  /\ notice = "Recording already in progress."
  /\ session # NoSession
  /\ session.isPaused
  /\ mediaRecorder # 0
  /\ chunks # <<>>

\* C3: when a startRecording call issued after a stopRecording call has its
\* session active by the time that stop finalizes its capture, the stop's
\* audio is exactly the chunks of its own recorder in arrival order, and the
\* stop neither changes nor releases the new recording's recorder, stream or
\* chunk buffer.
C3_StopLeavesNewRecordingAlone ==
  [][\A p \in Stops :
       (/\ stops[p].pc = "collect"
        /\ stops'[p].pc # "collect"
        /\ session # NoSession
        /\ session.id > stops[p].startsBefore)
       => /\ Len(stops'[p].blob) = recorders'[stops[p].rec].emitted
          /\ \A i \in 1..Len(stops'[p].blob) :
               stops'[p].blob[i] = [rec |-> stops[p].rec, n |-> i]
          /\ UNCHANGED <<mediaRecorder, currentStream, chunks>>
          /\ currentStream # 0 => streams'[currentStream] = streams[currentStream]]_vars

\* C4: whatever stages fail, no error escapes stopRecording: no call's
\* promise rejects.
C4_NoErrorEscapesStop == \A p \in Stops : stops[p].pc # "threw"

\* C5: when a stopRecording call that consumed a session finishes and no
\* startRecording was issued since it was made, the manager is Idle.
C5_FinishedStopLeavesIdle ==
  [][\A p \in Stops :
       (/\ stops[p].pc \notin Returned
        /\ stops'[p].pc \in Returned
        /\ startCalls' = stops[p].startsBefore)
       => Idle']_vars

\* C6: a stopRecording call that arrives while an earlier one is suspended in
\* its pipeline, no other session having become active, returns with the
\* "no recording running" notice and finalizes, saves, transcribes and
\* creates nothing.
C6_SecondStopIsRejected ==
  [][\A p \in Stops :
       (/\ stopCalls' = stopCalls + 1
        /\ stops[p].pc \notin Returned
        /\ session = NoSession \/ session.id = stops[p].session.id)
       => /\ notice' = "No recording is currently running."
          /\ UNCHANGED <<stops, recorders, streams, chunks, vault, content>>]_vars

C6_SecondStopWhileFirstSuspended ==
  /\ Len(stops) = 1
  /\ stops[1].call = 1
  /\ stops[1].pc \notin Returned
  /\ stopCalls = 2
  /\ notice = "No recording is currently running."

\* C7: for a requested path a, unique-path generation returns a when a is
\* free, a-1 when a exists, and a-2 when a and a-1 exist: the suffix goes on
\* the requested name.  Checked on the path saveAudioFile is about to write.
C7_SuffixOnRequestedName ==
  \A p \in Stops :
    stops[p].pc \in {"arrayBuffer", "audioWrite"} =>
      LET a == AudioPath(stops[p].session.startedAt) IN
      /\ a \notin vault => stops[p].path = a
      /\ (a \in vault /\ NextCandidate(a, 1) \notin vault)
           => stops[p].path = NextCandidate(a, 1)
      /\ (a \in vault /\ NextCandidate(a, 1) \in vault
            /\ NextCandidate(a, 2) \notin vault)
           => stops[p].path = NextCandidate(a, 2)

\* C8: a stopRecording call that finds no transcription key sends no upload,
\* submit or status request, has saved the audio file unless storage failed,
\* creates no transcript note, shows a notice and returns; with no
\* startRecording waiting or issued since the call, the manager is Idle.
C8_NoKeySkipsTranscription ==
  \A p \in Stops :
    stops[p].apiKey = "missing" =>
      /\ stops[p].requests = <<>>
      /\ stops[p].polled = <<>>
      /\ ~stops[p].transcription
      /\ stops[p].noteFile = <<>>
      /\ stops[p].text = <<>>
      /\ "key missing" \in stops[p].notices
      /\ stops[p].pc = "done"
      /\ IF "could not save audio" \in stops[p].notices
           THEN stops[p].audioFilePath = <<>>
           ELSE stops[p].audioFilePath \in vault
      /\ (~stops[p].racing /\ startCalls = stops[p].startsBefore) => Idle

C8_AudioSavedWithoutKey ==
  \E p \in Stops :
    /\ stops[p].apiKey = "missing"
    /\ stops[p].audioFilePath \in vault
    /\ stops[p].pc = "done"
    /\ Idle

\* C9: a stopRecording call whose audio save failed still reads the key and,
\* with a key, uploads the audio; when its transcription succeeded and it
\* returned, the transcript note exists.
C9_SaveFailureDoesNotAbort ==
  \A p \in Stops :
    "could not save audio" \in stops[p].notices =>
      /\ stops[p].apiKey # "unread"
      /\ stops[p].apiKey = "set" =>
           (stops[p].requests # <<>> /\ stops[p].requests[1] = "upload")
      /\ (stops[p].transcription /\ stops[p].pc = "done") =>
           (stops[p].noteFile # <<>> /\ stops[p].noteFile \in vault)

C9_NoteWithoutAudio ==
  \E p \in Stops :
    /\ "could not save audio" \in stops[p].notices
    /\ stops[p].audioFilePath = <<>>
    /\ stops[p].transcription
    /\ stops[p].pc = "done"
    /\ stops[p].noteFile \in vault

\* C10: a status request answered "error" is the call's last: it was the
\* k-th request and the k-th answer, no request follows it, and
\* transcription fails, so the call returns without a note.
C10_ErrorStopsPolling ==
  \A p \in Stops :
    \A k \in 1..Len(stops[p].polled) :
      stops[p].polled[k] = "error" =>
        /\ k = Len(stops[p].polled)
        /\ PollsSent(stops[p]) = k
        /\ stops[p].pc = "done"
        /\ ~stops[p].transcription
        /\ "transcription failed" \in stops[p].notices
        /\ stops[p].noteFile = <<>>

C10_ErrorOnThirdPoll ==
  \E p \in Stops :
    /\ Len(stops[p].polled) = 3
    /\ stops[p].polled[3] = "error"

\* C11: when a status request is answered "error" with a message of the
\* service, the "Transcription failed" notice of the call carries that
\* message.
C11_NoticeCarriesServiceMessage ==
  \A p \in Stops :
    stops[p].serviceError # "" => stops[p].failure = stops[p].serviceError

\* C12: a call whose status requests are all answered queued or processing
\* sends exactly 40 of them and then fails with the timeout: it has returned
\* without transcript or note, and no call ever sends a 41st.
C12_FortyPollsThenTimeout ==
  \A p \in Stops :
    /\ PollsSent(stops[p]) <= PollBudget
    /\ Len(stops[p].polled) <= PollBudget
    /\ (/\ Len(stops[p].polled) = PollBudget
        /\ \A k \in 1..PollBudget : stops[p].polled[k] = "pending")
       => /\ PollsSent(stops[p]) = PollBudget
          /\ stops[p].pc = "done"
          /\ ~stops[p].transcription
          /\ "transcription failed" \in stops[p].notices
          /\ stops[p].failure = NoticeDetail(TimedOut)
          /\ stops[p].noteFile = <<>>

C12_TimedOut ==
  \E p \in Stops :
    /\ Len(stops[p].polled) = PollBudget
    /\ \A k \in 1..PollBudget : stops[p].polled[k] = "pending"
    /\ stops[p].pc = "done"

\* The elapsed time the panel would show at the latest clock reading.
Elapsed == getElapsedRecordingMs(now)

Occurrences(text, fragment) ==
  Cardinality({i \in 1..Len(text) : text[i] = fragment})

\* The back-link to the transcript note of a stopRecording call.
LinkOf(q) == WikiLink(TFileBasename(q.noteFile))

\* C14: for every transcript note and the content its parent note has at any
\* moment, appending the note's back-link a second time returns the content
\* the first append returned, and no parent note ever holds a back-link
\* twice.
C14_LinkAppendedOnce ==
  \A p \in Stops :
    (stops[p].noteFile # <<>> /\ stops[p].session.parentFile # NoFile) =>
      LET text == content[ParentPath(stops[p].session.parentFile)]
          once == appendLinkToParent(text, LinkOf(stops[p]))
      IN  /\ appendLinkToParent(once, LinkOf(stops[p])) = once
          /\ Occurrences(once, LinkOf(stops[p])) = 1
          /\ Occurrences(text, LinkOf(stops[p])) <= 1

C14_LinkInParent ==
  \E p \in Stops :
    /\ stops[p].noteFile # <<>>
    /\ stops[p].session.parentFile # NoFile
    /\ stops[p].pc = "done"
    /\ Includes(content[ParentPath(stops[p].session.parentFile)], LinkOf(stops[p]))

\* C15: for every transcript note and the content it has at any moment,
\* appending the summary to a note that has the heading returns the note
\* unchanged, a second append returns what the first returned, and no note
\* ever holds the summary heading twice.
C15_SummaryAppendedOnce ==
  \A p \in Stops :
    stops[p].noteFile # <<>> =>
      LET text == content[stops[p].noteFile]
          once == appendMeetingSummary(text)
      IN  /\ appendMeetingSummary(once) = once
          /\ HasSummary(text) => once = text
          /\ Occurrences(once, SummaryHeading) = 1
          /\ Occurrences(text, SummaryHeading) <= 1

C15_SummaryInNote ==
  \E p \in Stops :
    /\ stops[p].noteFile # <<>>
    /\ stops[p].pc = "done"
    /\ Occurrences(content[stops[p].noteFile], SummaryHeading) = 1

\* The utterances that have text, and, in their order, those of them a line
\* is shown for (a text of blanks alone, without time or speaker, shows
\* nothing).
Spoken(us) == {i \in 1..Len(us) : us[i].text # ""}
Shown(us) ==
  SelectSeq([i \in 1..Len(us) |-> i],
            LAMBDA i : /\ us[i].text # ""
                       /\ ~(trim(us[i].text) = "" /\ us[i].start = <<>>
                              /\ us[i].speaker = ""))

\* The display number a label has when labels are numbered from 1 in the
\* order of their first appearance among the utterances of `among`.
FirstAmong(us, label, among) ==
  CHOOSE i \in among :
    us[i].speaker = label /\ \A j \in among : us[j].speaker = label => i <= j
NumberAmong(us, label, among) ==
  Cardinality({l \in {us[j].speaker : j \in among} \ {""} :
                 FirstAmong(us, l, among) <= FirstAmong(us, label, among)})

\* The speaker number a line shows, "" when it shows none.
NumberOn(line) ==
  IF \E j \in 1..Len(line) : line[j] = "**Speaker "
    THEN line[(CHOOSE j \in 1..Len(line) : line[j] = "**Speaker ") + 1]
    ELSE ""

\* The lines of every transcript show each label with the number it has
\* when labels are numbered in order of first appearance among `among(us)`.
NumberedAmong(among(_)) ==
  \A p \in Stops :
    (stops[p].transcription /\ Len(stops[p].transcript.utterances) > 0) =>
      LET us == stops[p].transcript.utterances
          lines == formatTranscript(stops[p].transcript)
      IN  /\ Len(lines) = Len(Shown(us))
          /\ \A k \in 1..Len(lines) :
               us[Shown(us)[k]].speaker # "" =>
                 NumberOn(lines[k]) =
                   ToString(NumberAmong(us, us[Shown(us)[k]].speaker, among(us)))

AllOf(us) == 1..Len(us)

\* C16 as stated: every line shows its speaker with the number the label has
\* in order of first appearance in the utterance list, numbered from 1.
C16_NumberedByFirstAppearance == NumberedAmong(AllOf)

\* C16 amended: every line shows its speaker with the number the label has
\* in order of first appearance among the utterances that have text,
\* numbered from 1; so every utterance of a label shows the same number.
C16_NumberedByFirstSpokenAppearance == NumberedAmong(Spoken)

C16_SilentSpeakerNumberedLater ==
  \E p \in Stops :
    /\ stops[p].pc = "done"
    /\ stops[p].noteFile \in vault
    /\ LET us == stops[p].transcript.utterances IN
       /\ Len(us) = 3
       /\ us[1].speaker = "B" /\ us[1].text = ""
       /\ us[2].speaker = "A" /\ us[2].text = "hi"
       /\ us[3].speaker = "B" /\ us[3].text = "hi"
       /\ us[1].start = <<>> /\ us[2].start = <<>> /\ us[3].start = <<>>
    /\ Includes(content[stops[p].noteFile], <<"**Speaker ", "1", ":**", " ", "hi">>)
    /\ Includes(content[stops[p].noteFile], <<"**Speaker ", "2", ":**", " ", "hi">>)

\* C17: the lines of every transcript are, in order, those of its utterances
\* that are shown, none of which has an empty text: each line ends with its
\* utterance's text, starts with the time exactly when the utterance has
\* one, names a speaker exactly when it has one, and is not blank; the note
\* written from them holds no blank line.
C17_EmptyUtterancesSkipped ==
  \A p \in Stops :
    (stops[p].transcription /\ Len(stops[p].transcript.utterances) > 0) =>
      LET us == stops[p].transcript.utterances
          lines == formatTranscript(stops[p].transcript)
      IN  /\ Len(lines) = Len(Shown(us))
          /\ Len(lines) <= Cardinality(Spoken(us))
          /\ \A k \in 1..Len(lines) :
               LET u == us[Shown(us)[k]]
                   line == lines[k]
               IN  /\ u.text # ""
                   /\ line # <<"">>
                   /\ line[Len(line)] = trim(u.text)
                   /\ (line[1] = "[") <=> (u.start # <<>>)
                   /\ (NumberOn(line) # "") <=> (u.speaker # "")
          /\ stops[p].noteFile # <<>> =>
               \A i \in 1..Len(content[stops[p].noteFile]) :
                 content[stops[p].noteFile][i] \notin {<<>>, <<"">>}

C17_LineSkippedBetweenTwo ==
  \E p \in Stops :
    /\ stops[p].pc = "done"
    /\ stops[p].noteFile \in vault
    /\ LET us == stops[p].transcript.utterances IN
       /\ Len(us) = 3
       /\ us[1].text = "hi" /\ us[2].text = "" /\ us[3].text = "hi"
       /\ us[2].speaker = "A" /\ us[2].start # <<>>
       /\ Len(formatTranscript(stops[p].transcript)) = 2

\* C18: a stopRecording call whose recorder delivered no chunk and whose
\* audio is empty goes on without failing: once past the save it has saved
\* the file or shown that it could not, has read the key, and with a key has
\* uploaded the audio, without a key has sent nothing and returned.
C18_EmptyRecordingGoesOn ==
  \A p \in Stops :
    (/\ stops[p].pc # "collect"
     /\ recorders[stops[p].rec].emitted = 0
     /\ stops[p].blob = <<>>)
    => \/ stops[p].pc \in {"audioMkdir", "arrayBuffer", "audioWrite"}
       \/ /\ IF "could not save audio" \in stops[p].notices
                THEN stops[p].audioFilePath = <<>>
                ELSE stops[p].audioFilePath \in vault
          /\ stops[p].apiKey # "unread"
          /\ stops[p].apiKey = "set" =>
               (stops[p].requests # <<>> /\ stops[p].requests[1] = "upload")
          /\ stops[p].apiKey = "missing" =>
               (stops[p].requests = <<>> /\ stops[p].pc = "done")

C18_EmptyAudioUploaded ==
  \E p \in Stops :
    /\ recorders[stops[p].rec].emitted = 0
    /\ stops[p].blob = <<>>
    /\ stops[p].audioFilePath \in vault
    /\ stops[p].apiKey = "set"
    /\ stops[p].requests # <<>>

\* C19: a stopRecording call that finds summaries disabled or no summary key
\* sends no summary request; one whose request failed or came back empty has
\* no summary; in each of these cases the call returned normally, its
\* transcript note is in the vault and holds no summary heading.
C19_NoSummaryStillCompletes ==
  \A p \in Stops :
    /\ stops[p].summarySettings \in {"disabled", "no key"} =>
         (~stops[p].summaryAsked /\ stops[p].completion = "none")
    /\ stops[p].completion # "none" => stops[p].summarySettings = "ready"
    /\ (\/ stops[p].summarySettings \in {"disabled", "no key"}
        \/ stops[p].completion \in {"empty", "failed"})
       => /\ stops[p].pc = "done"
          /\ "recording complete" \in stops[p].notices
          /\ stops[p].noteFile \in vault
          /\ ~HasSummary(content[stops[p].noteFile])
          /\ (stops[p].completion = "failed") <=> ("summary failed" \in stops[p].notices)

C19_SummaryRequestFailed ==
  \E p \in Stops :
    /\ stops[p].completion = "failed"
    /\ stops[p].pc = "done"
    /\ stops[p].noteFile \in vault
    /\ ~HasSummary(content[stops[p].noteFile])

\* A call of pauseRecording / resumeRecording in the current state, whatever
\* that state is: the methods assign nothing but the session's pause fields
\* and the recorder's state (lines 139-171).
PauseCall ==
  /\ \E t \in ClockReadings : pauseRecording(t)
  /\ UNCHANGED <<mediaRecorder, currentStream, chunks, recordingPanel, notice,
                 streams, starting, stops, callVars, hostVars, limits>>
ResumeCall ==
  /\ \E t \in ClockReadings : resumeRecording(t)
  /\ UNCHANGED <<mediaRecorder, currentStream, chunks, recordingPanel, notice,
                 streams, starting, stops, callVars, hostVars, limits>>

\* C20: in a state with no session (idle, or a stop pipeline draining) or with
\* a paused session, no call of pauseRecording changes any variable; in a
\* state with no session or with a session that is not paused, no call of
\* resumeRecording changes any variable.
C20_PauseResumeOnlyInTheirState ==
  /\ (session = NoSession \/ session.isPaused) => ~ENABLED <<PauseCall>>_vars
  /\ (session = NoSession \/ ~session.isPaused) => ~ENABLED <<ResumeCall>>_vars

C20_PausedWhileClockMoved ==
  /\ session # NoSession
  /\ session.isPaused
  /\ mediaRecorder # 0
  /\ recorders[mediaRecorder].state = "paused"
  /\ now > session.pauseStartedAt
  /\ ENABLED <<ResumeCall>>_vars

\* C21: in every reachable state an active session that is paused has
\* pauseStartedAt set, and an active session that is not paused has it unset.
C21_PauseStartSetIffPaused ==
  session # NoSession => (session.isPaused <=> session.pauseStartedAt # 0)

C21_ResumedThenPausedAgain ==
  /\ session # NoSession
  /\ session.isPaused
  /\ session.pauseStartedAt # 0
  /\ session.totalPausedMs > 0

\* C22: a session starts with totalPausedMs 0 and not paused; a pause records
\* the time of the pause and leaves totalPausedMs alone; a resume adds the
\* time of the resume minus the time of that pause; no other step changes
\* totalPausedMs or the recorded pause time of the session.
C22_TotalPausedIsSumOfPauses ==
  [][/\ (session' # NoSession /\ session'.id # session.id)
          => (session'.totalPausedMs = 0 /\ ~session'.isPaused)
     /\ (session # NoSession /\ session'.id = session.id)
          => /\ (~session.isPaused /\ session'.isPaused)
                  => /\ session'.pauseStartedAt = now'
                     /\ session'.totalPausedMs = session.totalPausedMs
             /\ (session.isPaused /\ ~session'.isPaused)
                  => session'.totalPausedMs =
                       session.totalPausedMs + (now' - session.pauseStartedAt)
             /\ (session.isPaused <=> session'.isPaused)
                  => /\ session'.totalPausedMs = session.totalPausedMs
                     /\ session'.pauseStartedAt = session.pauseStartedAt]_vars

C22_TwoPausesAdded ==
  /\ session # NoSession
  /\ ~session.isPaused
  /\ session.totalPausedMs = 2 * 1000

\* C23: when a startRecording call fails at the microphone request or at the
\* construction of the recorder, the manager holds no session afterwards
\* (isRecording is false) and no stream is left open.
C23_FailedStartLeavesNothing ==
  [][(starting' # starting /\ notice' = "Unable to access microphone.")
       => (session' = NoSession /\ LiveStreams' = {})]_vars

\* The step of stopRecording a call is in: 1 finalize the capture, 2 persist
\* the audio, 3 transcribe, 4 create the note, 5 append the back-link,
\* 6 append the summary, 7 returned or rejected.
StageOf(pc) ==
  CASE pc = "collect" -> 1
    [] pc \in {"audioMkdir", "arrayBuffer", "audioWrite"} -> 2
    [] pc \in {"upload", "submit", "poll"} -> 3
    [] pc \in {"noteMkdir", "noteWrite"} -> 4
    [] pc \in {"linkRead", "linkWrite"} -> 5
    [] pc \in {"summary", "summaryRead", "summaryWrite"} -> 6
    [] OTHER -> 7

\* C24: a stopRecording call never moves back to an earlier step; while it is
\* at a step nothing of a later step has happened (no request before the
\* audio save settled, no note before the transcription ended, no summary
\* before the back-link step ended); and it is at the note, back-link or
\* summary step, or has a note or a summary request, only if transcribeAudio
\* returned a result.
C24_StagesInOrder ==
  [][\A p \in 1..Len(stops') :
       LET q == stops'[p]
           stage == StageOf(q.pc)
       IN  /\ p <= Len(stops) => stage >= StageOf(stops[p].pc)
           /\ p > Len(stops) => stage = 1
           /\ stage <= 2 => (q.requests = <<>> /\ q.apiKey = "unread")
           /\ stage <= 3 => (~q.transcription /\ q.noteFile = <<>>)
           /\ stage <= 5 => (q.summarySettings = "unread" /\ ~q.summaryAsked)
           /\ q.requests # <<>> =>
                (q.audioFilePath # <<>> \/ "could not save audio" \in q.notices)
           /\ (\/ stage \in 4..6
               \/ q.noteFile # <<>>
               \/ q.summarySettings # "unread"
               \/ "recording complete" \in q.notices)
                => (q.transcription /\ q.polled[Len(q.polled)] = "completed")
           /\ (stage \in 5..6 \/ q.summarySettings # "unread") => q.noteFile # <<>>]_vars

C24_EveryStepDone ==
  \E p \in Stops :
    /\ stops[p].pc = "done"
    /\ stops[p].audioFilePath \in vault
    /\ stops[p].session.parentFile # NoFile
    /\ stops[p].noteFile \in vault
    /\ Includes(content[ParentPath(stops[p].session.parentFile)], LinkOf(stops[p]))
    /\ HasSummary(content[stops[p].noteFile])

\* C25: the requests of a stopRecording call are upload, then submit, then
\* status requests only; a submit request was sent only after the upload
\* answer held an upload URL, a status request only after the submit answer
\* held an id; and a call whose upload or submit answer lacked it sent
\* nothing more, has no transcript and showed the failure notices.
C25_UploadSubmitPollInOrder ==
  \A p \in Stops :
    LET q == stops[p] IN
    /\ \A i \in 1..Len(q.requests) :
         q.requests[i] = (IF i = 1 THEN "upload" ELSE IF i = 2 THEN "submit" ELSE "poll")
    /\ Len(q.replies) <= 2
    /\ Len(q.replies) <= Len(q.requests)
    /\ Len(q.requests) >= 2 => (Len(q.replies) >= 1 /\ q.replies[1] = "ok")
    /\ Len(q.requests) >= 3 => (Len(q.replies) = 2 /\ q.replies[2] = "ok")
    /\ \A i \in 1..Len(q.replies) :
         q.replies[i] = "empty"
           => /\ Len(q.requests) = i
              /\ q.pc = "done"
              /\ ~q.transcription
              /\ q.noteFile = <<>>
              /\ {"transcription failed", "failed or skipped"} \subseteq q.notices

C25_SubmitAnswerWithoutId ==
  \E p \in Stops :
    /\ stops[p].replies = <<"ok", "empty">>
    /\ stops[p].requests = <<"upload", "submit">>
    /\ stops[p].pc = "done"

\* C26: a stopRecording call whose upload, submit or status request was
\* rejected (no reply, or an HTTP error status) sent no request after it:
\* the rejected request is its last one, the call has no transcript and no
\* note, and it returned with the failure notices.
C26_RejectedRequestIsTheLast ==
  \A p \in Stops :
    LET q == stops[p]
        Ended == /\ q.pc = "done"
                 /\ ~q.transcription
                 /\ q.noteFile = <<>>
                 /\ {"transcription failed", "failed or skipped"} \subseteq q.notices
    IN  /\ \A i \in 1..Len(q.replies) :
             q.replies[i] = "failed" => (Len(q.requests) = i /\ Ended)
        /\ \A j \in 1..Len(q.polled) :
             q.polled[j] = "failed"
               => (j = Len(q.polled) /\ Len(q.requests) = 2 + j /\ Ended)

C26_SecondPollRejected ==
  \E p \in Stops :
    /\ stops[p].polled = <<"pending", "failed">>
    /\ stops[p].requests = <<"upload", "submit", "poll", "poll">>
    /\ stops[p].pc = "done"

\* The name and the frontmatter lines a note has for a parent note and a
\* start time.
NamedAfter(path, parentFile) ==
  path[3] = (IF parentFile # NoFile THEN parentFile ELSE "Meeting")
SourceNoteLine(parentFile) == <<"source_note: ">> \o WikiLink(<<parentFile>>)
CreatedLine(startedAt) == <<"created: ", ToString(startedAt)>>

\* C27: the snapshot a stopRecording call holds is the session the manager
\* had when the call was made and never changes; the note the call creates
\* is named after the snapshot's parent note, carries the snapshot's start
\* time and names that parent note as its source; the back-link is written
\* to that parent note: whatever session the manager holds by then.
C27_NoteUsesConsumedSession ==
  [][\A p \in 1..Len(stops') :
       LET q == stops'[p] IN
       /\ p > Len(stops) =>
            q.session = [id |-> session.id, parentFile |-> session.parentFile,
                         startedAt |-> session.startedAt]
       /\ p <= Len(stops) => q.session = stops[p].session
       /\ q.pc = "noteWrite" =>
            /\ NamedAfter(q.path, q.session.parentFile)
            /\ Includes(q.text, CreatedLine(q.session.startedAt))
            /\ \A f \in ParentFiles :
                 Includes(q.text, SourceNoteLine(f)) <=> f = q.session.parentFile
       /\ (p <= Len(stops) /\ stops[p].pc = "linkWrite" /\ content' # content) =>
            /\ q.session.parentFile # NoFile
            /\ Includes(content'[ParentPath(q.session.parentFile)], LinkOf(q))
            /\ \A f \in DOMAIN content :
                 f # ParentPath(q.session.parentFile) => content'[f] = content[f]]_vars

C27_NewSessionDuringPipeline ==
  \E p \in Stops :
    /\ stops[p].pc = "linkWrite"
    /\ stops[p].session.parentFile # NoFile
    /\ session # NoSession
    /\ session.id # stops[p].session.id
    /\ session.parentFile # stops[p].session.parentFile
    /\ session.startedAt # stops[p].session.startedAt
    /\ Includes(content[stops[p].noteFile], SourceNoteLine(stops[p].session.parentFile))

\* Reading a timestamp back.  The pieces of a line between "[" and "]", the
\* three fields the two colons separate, and the number a field shows: a
\* field is "0" and one digit, or a number of two digits or more; -1 is a
\* field of any other form.  `most` is the largest number looked for.
Stamp(line) ==
  SubSeq(line, 2, (CHOOSE i \in 1..Len(line) : line[i] = "]") - 1)
Colons(stamp) == {i \in 1..Len(stamp) : stamp[i] = ":"}
Field(stamp, k) ==
  LET first == CHOOSE i \in Colons(stamp) : \A j \in Colons(stamp) : i <= j
      last == CHOOSE i \in Colons(stamp) : \A j \in Colons(stamp) : i >= j
  IN  CASE k = 1 -> SubSeq(stamp, 1, first - 1)
        [] k = 2 -> SubSeq(stamp, first + 1, last - 1)
        [] OTHER -> SubSeq(stamp, last + 1, Len(stamp))
FieldValue(field, most) ==
  IF Len(field) = 2 /\ field[1] = "0" /\ \E d \in 0..9 : ToString(d) = field[2]
    THEN CHOOSE d \in 0..9 : ToString(d) = field[2]
  ELSE IF Len(field) = 1 /\ \E n \in 10..most : ToString(n) = field[1]
    THEN CHOOSE n \in 10..most : ToString(n) = field[1]
  ELSE -1

\* The lines of a note that begin with a timestamp, and the start times of
\* the utterances the transcript shows with one.
StampedLines(text) == SelectSeq(text, LAMBDA line : line # <<>> /\ line[1] = "[")
StampedStarts(us) ==
  LET shown == SelectSeq(Shown(us), LAMBDA i : us[i].start # <<>>)
  IN  [k \in 1..Len(shown) |-> us[shown[k]].start[1]]

\* C28: every timestamp in a transcript note reads HH:MM:SS where each field
\* is zero-padded to two digits or longer, MM and SS are at most 59, and
\* HH*3600 + MM*60 + SS is the utterance's start in whole seconds, rounded
\* down, whatever the number of hours.
C28_TimestampReadsBack ==
  \A p \in Stops :
    (stops[p].noteFile # <<>> /\ Len(stops[p].transcript.utterances) > 0) =>
      LET lines == StampedLines(content[stops[p].noteFile])
          starts == StampedStarts(stops[p].transcript.utterances)
      IN  /\ Len(lines) = Len(starts)
          /\ \A k \in 1..Len(lines) :
               LET stamp == Stamp(lines[k])
                   most == 99 + starts[k] \div 3600000
                   hh == FieldValue(Field(stamp, 1), most)
                   mm == FieldValue(Field(stamp, 2), most)
                   ss == FieldValue(Field(stamp, 3), most)
               IN  /\ Cardinality(Colons(stamp)) = 2
                   /\ hh >= 0 /\ mm \in 0..59 /\ ss \in 0..59
                   /\ hh * 3600 + mm * 60 + ss = starts[k] \div 1000

C28_HundredHours ==
  \E p \in Stops :
    /\ stops[p].noteFile \in vault
    /\ Len(stops[p].transcript.utterances) = 1
    /\ stops[p].transcript.utterances[1].start = <<363723004>>
    /\ StampedLines(content[stops[p].noteFile]) # <<>>
    /\ Stamp(StampedLines(content[stops[p].noteFile])[1])
         = <<"101", ":", "0", "2", ":", "0", "3">>

\* The submit request of every call has the fixed flags, disfluencies
\* exactly in the 'accurate' mode, and as its language code code(language)
\* of the configured language, or en_us when that language is blank (empty
\* or spaces only).
SubmitBodyWith(code(_)) ==
  \A p \in Stops :
    Len(stops[p].requests) >= 2 =>
      LET body == stops[p].body
          language == stops[p].configured.language
      IN  /\ body.speaker_labels /\ body.punctuate /\ body.format_text
          /\ ~body.dual_channel
          /\ body.disfluencies <=> stops[p].configured.accuracySpeed = "accurate"
          /\ body.language_code =
               IF \A i \in 1..Len(language) : language[i] = " "
                 THEN <<"e", "n", "_", "u", "s">>
                 ELSE code(language)

\* A language character by character: small letters for capitals and an
\* underscore for each hyphen; and a language without the spaces around it.
SmallLetter(c) ==
  IF \E pair \in {<<"U", "u">>, <<"S", "s">>, <<"H", "h">>, <<"T", "t">>, <<"W", "w">>} :
       pair[1] = c
    THEN (CHOOSE pair \in {<<"U", "u">>, <<"S", "s">>, <<"H", "h">>, <<"T", "t">>,
                           <<"W", "w">>} : pair[1] = c)[2]
    ELSE c
LowerCasedUnderscored(language) ==
  [i \in 1..Len(language) |->
     IF language[i] = "-" THEN "_" ELSE SmallLetter(language[i])]
Bare(language) ==
  LET ink == {i \in 1..Len(language) : language[i] # " "} IN
  IF ink = {} THEN <<>>
  ELSE SubSeq(language, CHOOSE i \in ink : \A j \in ink : i <= j,
                        CHOOSE i \in ink : \A j \in ink : i >= j)
TrimmedLowerCasedUnderscored(language) == LowerCasedUnderscored(Bare(language))

\* C29 as stated: the submit request carries speaker_labels, punctuate and
\* format_text true, dual_channel false, disfluencies exactly in the
\* 'accurate' mode, and the configured language lower-cased with every
\* hyphen replaced by an underscore, or en_us when it is blank.
C29_SubmitBodyAsConfigured == SubmitBodyWith(LowerCasedUnderscored)

\* C29 amended: the same, the language code being the configured language
\* without the white space around it, lower-cased, with every hyphen
\* replaced by an underscore.
C29_SubmitBodyTrimmed == SubmitBodyWith(TrimmedLowerCasedUnderscored)

C29_TwoHyphensAccurate ==
  \E p \in Stops :
    /\ Len(stops[p].requests) >= 2
    /\ stops[p].configured.accuracySpeed = "accurate"
    /\ stops[p].configured.language
         = <<"z", "h", "-", "H", "a", "n", "t", "-", "T", "W">>
    /\ stops[p].body.language_code
         = <<"z", "h", "_", "h", "a", "n", "t", "_", "t", "w">>
    /\ stops[p].body.disfluencies

\* The text of the note a call is creating or has created, and the lines of
\* a text that begin with a given piece.
NoteText(q) == IF q.pc = "noteWrite" THEN q.text ELSE content[q.noteFile]
LinesStarting(text, piece) ==
  SelectSeq(text, LAMBDA line : line # <<>> /\ line[1] = piece)

\* C30: the note a stopRecording call creates has an audio_file line and an
\* audio link line, both naming the saved file, exactly when the call saved
\* its audio (the file is in the vault and no save failure was shown); it
\* has a source_note line naming the parent note exactly when the recording
\* had one; and the transcript folder exists when the note is created.
C30_NoteNamesAudioAndSource ==
  \A p \in Stops :
    (stops[p].pc = "noteWrite" \/ stops[p].noteFile # <<>>) =>
      LET q == stops[p]
          text == NoteText(q)
          saved == q.audioFilePath # <<>>
          audio == WikiLink(basename(q.audioFilePath))
      IN  /\ saved <=> "could not save audio" \notin q.notices
          /\ saved => q.audioFilePath \in vault
          /\ LinesStarting(text, "audio_file: ")
               = (IF saved THEN << <<"audio_file: ">> \o audio >> ELSE <<>>)
          /\ LinesStarting(text, "**Audio:** ")
               = (IF saved THEN << <<"**Audio:** ">> \o audio >> ELSE <<>>)
          /\ LinesStarting(text, "source_note: ")
               = (IF q.session.parentFile # NoFile
                    THEN << <<"source_note: ">> \o WikiLink(<<q.session.parentFile>>) >>
                    ELSE <<>>)
          /\ TranscriptionFolder \in vault

C30_SourceButNoAudio ==
  \E p \in Stops :
    /\ stops[p].noteFile \in vault
    /\ stops[p].audioFilePath = <<>>
    /\ stops[p].session.parentFile # NoFile
    /\ LinesStarting(content[stops[p].noteFile], "audio_file: ") = <<>>
    /\ LinesStarting(content[stops[p].noteFile], "source_note: ") # <<>>

\* C31: in every reachable state an active session has a recorder, so that
\* no state rejects startRecording as already in progress and stopRecording
\* as nothing running.
C31_ActiveSessionHasRecorder == AlreadyInProgress => ~NothingRunning

\* C32: when a stopRecording call calls createBinary for its audio file (the
\* step that follows blob.arrayBuffer()) or create for its transcript note,
\* nothing exists in the vault at the path of the call.
C32_CreatePathIsFree ==
  [][\A p \in Stops :
       /\ (stops[p].pc = "arrayBuffer" /\ stops'[p].pc = "audioWrite")
            => stops'[p].path \notin vault'
       /\ (stops[p].pc # "noteWrite" /\ stops'[p].pc = "noteWrite")
            => stops'[p].path \notin vault']_vars

\* C33: the speaker numbers on the lines of every transcript are exactly
\* 1..k, k being the number of different speaker labels among the utterances
\* that have text, and lines of two different labels never show the same
\* number.
C33_SpeakerNumbersDense ==
  \A p \in Stops :
    (stops[p].transcription /\ Len(stops[p].transcript.utterances) > 0) =>
      LET us == stops[p].transcript.utterances
          lines == formatTranscript(stops[p].transcript)
          labels == {us[i].speaker : i \in Spoken(us)} \ {""}
          numbers == {NumberOn(lines[k]) : k \in 1..Len(lines)} \ {""}
      IN  /\ Len(lines) = Len(Shown(us))
          /\ numbers = {ToString(n) : n \in 1..Cardinality(labels)}
          /\ \A k, l \in 1..Len(lines) :
               (/\ us[Shown(us)[k]].speaker # ""
                /\ us[Shown(us)[l]].speaker # ""
                /\ us[Shown(us)[k]].speaker # us[Shown(us)[l]].speaker)
                 => NumberOn(lines[k]) # NumberOn(lines[l])

C33_RepeatedSpeakerThenAnother ==
  \E p \in Stops :
    /\ stops[p].pc = "done"
    /\ stops[p].noteFile \in vault
    /\ LET us == stops[p].transcript.utterances IN
       /\ Len(us) = 3
       /\ us[1].speaker = "B" /\ us[1].text = "hi"
       /\ us[2].speaker = "B" /\ us[2].text = " "
       /\ us[3].speaker = "A" /\ us[3].text = "hi"
       /\ us[1].start = <<>> /\ us[2].start = <<>> /\ us[3].start = <<>>
    /\ Includes(content[stops[p].noteFile], <<"**Speaker ", "1", ":**", " ", "hi">>)
    /\ Includes(content[stops[p].noteFile], <<"**Speaker ", "1", ":**", " ", "">>)
    /\ Includes(content[stops[p].noteFile], <<"**Speaker ", "2", ":**", " ", "hi">>)

====
